---- MODULE Spec2Model ----
(***************************************************************************)
(* Model of the API client (lib/api.ts) of the video dashboard: the        *)
(* response envelope, the submit-then-poll job operations (processVideo,   *)
(* generateClips, uploadYoutubeVideo), the plain calls (getUserVideos) and *)
(* the file upload with its mock fallback (MockApiHandler).                *)
(*                                                                         *)
(* One behaviour is one call of one public function.  The server and the   *)
(* network are the environment: every request in flight is answered, in    *)
(* any order, by any HTTP outcome of its set or by a transport failure.    *)
(*                                                                         *)
(* The components have specifications of their own: the overlapping       *)
(* calls of mockProcessVideo (SpecMockProcess), the upload form            *)
(* UploadSection alone (SpecForm) and inside the Dashboard page            *)
(* (SpecDashboard), the caption editor CaptionEditor (SpecCaption), the    *)
(* requests of the API client and the stored token (SpecRequests), the     *)
(* in-memory list of the mock layer (SpecMockList), the table              *)
(* VideoHistory (SpecHistory) and the VideoEditor (SpecEditor).            *)
(***************************************************************************)
EXTENDS Integers, Sequences, FiniteSets, TLC

\* ---------------------------------------------------------------- bounds
\* Number of timer ticks (poll requests) one job may send in the model.
MaxTicks == 3
\* Number of XHR upload progress events of one file upload in the model.
MaxXhrEvents == 2
\* Size of the uploaded file, in chunks (event.total of a progress event).
XhrTotal == 3
\* Number of mockProcessVideo calls that may overlap in the model.
MaxJobs == 2
\* Number of files of one drop on the upload form in the model.
MaxSelection == 2
\* Distance, in tenths of a second, of the slider positions tried in the model.
TimeGrid == 50
\* Number of calls and timeouts the upload form may wait for at once in the model.
MaxPending == 2
\* Number of records the in-memory list of the mock layer may hold in the model.
MaxListLen == 5
\* Number of analysis timeouts of the video editor that may be pending in the model.
MaxCropTimers == 2

\* ------------------------------------------------------- program constants
\* Step of the simulated progress of mockUploadVideo / mockUploadYoutubeVideo.
MockStep == 5
\* The simulated progress stops once it reaches this value.
MockDone == 100
\* uploadYoutubeVideo: value reported before the submit request.
YtStartProgress == 5
\* uploadYoutubeVideo: value reported once the job was accepted.
YtAcceptedProgress == 10
\* Step and end of the simulated progress of mockProcessVideo.
ProcessStep == 10
ProcessDone == 100
\* UploadSection: default of maxFileSize, in MB.
MaxFileSizeMB == 500
\* CaptionEditor, in tenths of a second: initial end time, upper end of both
\* sliders, and the distance the end slider's minimum keeps from the start.
InitialEndTime == 50
SliderMax == 600
EndGap == 5

\* VideoEditor: one click turns by a quarter, `% 360`, and the slider ends at 359.
QuarterTurn == 90
FullTurn == 360
RotationSliderMax == 359
\* VideoEditor: min of the width and height sliders, and the full frame.
CropMin == 10
CropFull == 100

\* ------------------------------------------------------------ JS values
\* Every JavaScript value of the model is a record with a type tag t.
Undefined == [t |-> "undefined"]
Null == [t |-> "null"]
Str(s) == [t |-> "str", s |-> s]
\* A JSON object that carries a (non-empty) message field.
MsgObj(m) == [t |-> "msg", message |-> m]
\* A JSON object without any of the fields the client reads.
PlainObj == [t |-> "obj"]
\* A body announced as JSON that response.json() cannot parse.
Malformed == [t |-> "malformed"]
\* {jobId} as answered by a job-creation endpoint.
JobObj(j) == [t |-> "job", jobId |-> j]
\* {progress, completed, videoData?} as answered by the progress endpoint.
ProgressObj(p, c, v) == [t |-> "progress", progress |-> p, completed |-> c, videoData |-> v]
\* A VideoData record / a ClipData list, reduced to identity, status and origin.
Video(id, status, from) == [t |-> "video", id |-> id, status |-> status, from |-> from]
Clips(n, from) == [t |-> "clips", n |-> n, from |-> from]

\* JavaScript truthiness, as used by `if (result.data)` and `result.error || ...`.
Truthy(v) ==
    /\ v.t \notin {"undefined", "null"}
    /\ (v.t = "str" => v.s # "")

\* An envelope ApiResponse<T>: a field that is not set is Undefined.
Envelope(d, e) == [data |-> d, error |-> e]
DataEnv(d) == Envelope(d, Undefined)
ErrorEnv(m) == Envelope(Undefined, Str(m))

\* ------------------------------------------------------- HTTP outcomes
Throw == [kind |-> "throw"]
Http(ok, json, body) == [kind |-> "http", ok |-> ok, json |-> json, body |-> body]

\* Message of the TypeError the browser raises when fetch fails.
FetchFailed == "Failed to fetch"
\* Message of the exception raised by response.json() / a property read of null.
ParseFailed == "Unexpected token"
NullRead == "Cannot read properties of null"

\* Bodies a server may send with a non-success status.
ErrorOutcomes ==
    { Http(FALSE, TRUE, MsgObj("quota exceeded")),
      Http(FALSE, TRUE, PlainObj),
      Http(FALSE, TRUE, Null),
      Http(FALSE, FALSE, Str("<html>Bad Gateway</html>")),
      Http(FALSE, FALSE, Str("")) }

\* Success responses that carry no usable payload.
EmptyOutcomes ==
    { Http(TRUE, TRUE, Null),
      Http(TRUE, FALSE, Str("")),
      Http(TRUE, TRUE, Malformed) }

\* handleResponse: the result is either an envelope or an exception.
Returned(env) == [thrown |-> FALSE, env |-> env, msg |-> ""]
Thrown(m) == [thrown |-> TRUE, env |-> Envelope(Undefined, Undefined), msg |-> m]

\* Variant: a non-success response keeps the parsed body next to the error.
handleResponseKeepsBody(r) ==
    IF r.json /\ r.body = Malformed
    THEN Thrown(ParseFailed)
    ELSE IF ~r.ok
         THEN Returned(Envelope(r.body, Str("An error occurred")))
         ELSE Returned(DataEnv(r.body))

handleResponse(r) ==
    IF r.json /\ r.body = Malformed
    THEN Thrown(ParseFailed)                     \* await response.json() rejects
    ELSE IF ~r.ok
         THEN IF r.json /\ r.body = Null
              THEN Thrown(NullRead)              \* data.message with data = null
              ELSE IF r.json /\ r.body.t = "msg"
                   THEN Returned(Envelope(Undefined, Str(r.body.message)))
                   ELSE Returned(ErrorEnv("An error occurred"))
         ELSE Returned(DataEnv(r.body))

\* `try { fetch; handleResponse } catch (error) { return {error: message} }`
\* as in getUserVideos and the outer try of every job operation.
CallResult(o) ==
    IF o.kind = "throw"
    THEN Thrown(FetchFailed)
    ELSE handleResponse(o)

CatchAsError(res) ==
    IF res.thrown THEN ErrorEnv(res.msg) ELSE res.env

\* Variant: the function has no outer catch, so an exception rejects its promise.
SettledUncaught(res) ==
    IF res.thrown THEN "rejected" ELSE "returned"

\* How the promise of a public function settles when its body ended with
\* res: the outer try/catch turns every exception into a returned envelope.
SettledAs(res) == "returned"


\* ------------------------------------------------------------ the calls
JobOps == {"processVideo", "generateClips", "uploadYoutubeVideo"}
Ops == JobOps \cup {"getUserVideos", "uploadVideo"}

\* Remote URLs given to uploadYoutubeVideo (NoUrl: the other functions).
NoUrl == ""
Urls ==
    { "https://youtu.be/dQw4w9WgXcQ",
      "https://www.youtube.com/watch?v=dQw4w9WgXcQ",
      "https://www.youtube.com/watch?v=dQw4w9WgXcQ&t=10s",
      "https://youtu.be/vQw4w9WgXcQ",
      "https://youtu.be/short",
      "https://example.com/clip" }

\* ------------------------------------------------ regular expressions
\* The character of s at position i ("" beyond the end).
Ch(s, i) == IF i >= 1 /\ i <= Len(s) THEN SubSeq(s, i, i) ELSE ""

\* The literal lit occurs in s at position i.
LitAt(s, i, lit) ==
    /\ i >= 1
    /\ i + Len(lit) - 1 <= Len(s)
    /\ SubSeq(s, i, i + Len(lit) - 1) = lit

Digits == {"0", "1", "2", "3", "4", "5", "6", "7", "8", "9"}
Letters ==
    {"a", "b", "c", "d", "e", "f", "g", "h", "i", "j", "k", "l", "m",
     "n", "o", "p", "q", "r", "s", "t", "u", "v", "w", "x", "y", "z",
     "A", "B", "C", "D", "E", "F", "G", "H", "I", "J", "K", "L", "M",
     "N", "O", "P", "Q", "R", "S", "T", "U", "V", "W", "X", "Y", "Z"}
\* \w and [a-zA-Z0-9_-]
WordChars == Letters \cup Digits \cup {"_"}
IdChars == WordChars \cup {"-"}

\* Length of the alternative of
\*   (youtu.be\/)|(v\/)|(\/u\/\w\/)|(embed\/)|(watch\?)
\* that matches s at position i (0: none); the dot matches any character.
MarkerLen(s, i) ==
    IF LitAt(s, i, "youtu") /\ Ch(s, i + 5) # "" /\ LitAt(s, i + 6, "be/") THEN 9
    ELSE IF LitAt(s, i, "v/") THEN 2
    ELSE IF LitAt(s, i, "/u/") /\ Ch(s, i + 3) \in WordChars /\ Ch(s, i + 4) = "/" THEN 5
    ELSE IF LitAt(s, i, "embed/") THEN 6
    ELSE IF LitAt(s, i, "watch?") THEN 6
    ELSE 0

\* Position after an optional character c at position i.
SkipOpt(s, i, c) == IF Ch(s, i) = c THEN i + 1 ELSE i

\* Group 7 of /^.*(marker)\??v?=?([^#&?]*).*/ on s: the greedy .* leaves the
\* last marker of s; "?", "v" and "=" are skipped when present; the group is
\* the longest run without "#", "&" and "?".  NoMatch when no marker occurs.
NoMatch == [matched |-> FALSE, group7 |-> ""]
Group7(s) ==
    LET starts == {i \in 1..Len(s) : MarkerLen(s, i) > 0} IN
    IF starts = {}
    THEN NoMatch
    ELSE LET i == CHOOSE k \in starts : \A m \in starts : m <= k
             p == SkipOpt(s, SkipOpt(s, SkipOpt(s, i + MarkerLen(s, i), "?"), "v"), "=")
             stops == {q \in p..Len(s) : Ch(s, q) \in {"#", "&", "?"}}
             e == IF stops = {}
                  THEN Len(s) + 1
                  ELSE CHOOSE q \in stops : \A m \in stops : q <= m
         IN [matched |-> TRUE, group7 |-> SubSeq(s, p, e - 1)]

\* getYoutubeVideoId: `match && match[7].length === 11 ? match[7] : null`
\* (null is written "").
getYoutubeVideoId(u) ==
    IF Group7(u).matched /\ Len(Group7(u).group7) = 11 THEN Group7(u).group7 ELSE ""

\* validateYoutubeUrl of the upload form:
\* /^(https?:\/\/)?(www\.)?(youtube\.com\/watch\?v=|youtu\.be\/)([a-zA-Z0-9_-]{11}).*$/
\* The positions the match can stand at after each of its groups.
AfterScheme(s) ==
    {1} \cup {p \in {9} : LitAt(s, 1, "https://")} \cup {p \in {8} : LitAt(s, 1, "http://")}

AfterWww(s) ==
    AfterScheme(s) \cup {p + 4 : p \in {q \in AfterScheme(s) : LitAt(s, q, "www.")}}

AfterHost(s) ==
    {p + 20 : p \in {q \in AfterWww(s) : LitAt(s, q, "youtube.com/watch?v=")}}
        \cup {p + 9 : p \in {q \in AfterWww(s) : LitAt(s, q, "youtu.be/")}}

validateYoutubeUrl(s) ==
    \E p \in AfterHost(s) : \A i \in p..(p + 10) : Ch(s, i) \in IdChars

\* Group 4 of that pattern: the 11 characters it takes for the video id.
ValidatedId(s) ==
    LET p == CHOOSE q \in AfterHost(s) : \A i \in q..(q + 10) : Ch(s, i) \in IdChars
    IN SubSeq(s, p, p + 10)

\* Files given to uploadVideo (NoFile: the other functions); size in bytes.
NoFile == [name |-> "", size |-> 0]
Files ==
    { [name |-> "clip.mp4", size |-> 10485760],
      [name |-> "talk.mov", size |-> 1234567] }

\* An id is a sequence of strings: a plain id has one part, the id of a mock
\* remote import is the prefix "yt-" followed by the extracted video id.
Id(s) == <<s>>
YtId(videoId) == <<"yt-", videoId>>
NoId == <<>>

\* Ids of the seed records of the in-memory list mockVideos.
SeedVideos == <<Id("1"), Id("2"), Id("3")>>
\* Math.random().toString(36).substring(2, 9) of one mock upload.
RandomId == Id("k3x9q2a")

\* The seed records as mockProcessVideo finds them, and an id that is not in
\* the list.
SeedIds == {SeedVideos[i] : i \in DOMAIN SeedVideos}
UnknownId == Id("9")
SeedStatus(id) ==
    CASE id = Id("1") -> "completed"
      [] id = Id("2") -> "processing"
      [] id = Id("3") -> "failed"
SeedPlatform(id) ==
    CASE id = Id("1") -> "YouTube"
      [] id = Id("2") -> "Instagram"
      [] id = Id("3") -> "TikTok"

\* A call of mockProcessVideo: not made yet / in its states.
IdleJob == [state |-> "idle", video |-> NoId, progress |-> 0]

\* What each operation returns right after a successful submit.
Placeholder(o, job) ==
    CASE o = "processVideo" -> DataEnv(Video(Id("video1"), "processing", "placeholder"))
      [] o = "generateClips" -> DataEnv(Clips(0, "placeholder"))
      [] OTHER -> DataEnv(Video(job, "processing", "placeholder"))

\* The payload of the result resource of each operation.
ServerResult(o) ==
    IF o = "generateClips"
    THEN Clips(2, "server")
    ELSE Video(Id("video1"), "completed", "server")

\* Answers to the submit request (for getUserVideos: to its only request).
SubmitOutcomes(o) ==
    {Throw} \cup ErrorOutcomes \cup EmptyOutcomes
        \cup (IF o = "getUserVideos"
              THEN {Http(TRUE, TRUE, [t |-> "list", n |-> 3])}
              ELSE {Http(TRUE, TRUE, JobObj(Id("job1")))})

\* Progress values a server reports while the job runs.
ProgressValues == {10, 40, 60}

\* Answers to one poll request: a running job, a completed job (with or
\* without the result inline), or a failure.
PollOutcomes ==
    { Http(TRUE, TRUE, ProgressObj(p, FALSE, FALSE)) : p \in ProgressValues }
        \cup { Http(TRUE, TRUE, ProgressObj(100, TRUE, v)) : v \in BOOLEAN }
        \cup { Throw, Http(TRUE, TRUE, Malformed),
               Http(FALSE, TRUE, MsgObj("quota exceeded")), Http(TRUE, TRUE, Null) }

\* Answers to the result request.
ResultOutcomes(o) ==
    {Throw, Http(TRUE, TRUE, ServerResult(o)), Http(FALSE, TRUE, MsgObj("quota exceeded")),
     Http(TRUE, TRUE, Null)}

\* Variant: the submit result is never checked.
SubmitRejectedNever(result) == FALSE

\* `if (result.error || !result.data) return result` (submit of a job operation).
SubmitRejected(result) ==
    Truthy(result.error) \/ ~Truthy(result.data)

\* `const jobId = result.data.jobId`
JobIdOf(result) ==
    IF result.data.t = "job" THEN result.data.jobId ELSE Id("undefined")

\* Variant: polling is started whether or not there is a callback.
StartsPollingAlways(callback) == TRUE

\* `if (onProgress)`: polling is started only for a caller with a callback.
StartsPolling(callback) == callback

\* `if (progressResult.data)`: the poll response is used.
PollHasData(res) ==
    ~res.thrown /\ Truthy(res.env.data)

\* `if (progressResult.data.completed)`
PollCompleted(res) ==
    PollHasData(res) /\ res.env.data.t = "progress" /\ res.env.data.completed

\* `if (progressResult.data.videoData)`: only uploadYoutubeVideo reads it.
UsesInlineResult(o, res) ==
    o = "uploadYoutubeVideo" /\ res.env.data.videoData

\* Variant: a poll that throws also clears the timer.
TimerClearedOnThrow(res, tm) ==
    IF res.thrown \/ PollCompleted(res) THEN "cleared" ELSE tm

\* Variant: a poll answered by an error envelope also clears the timer.
TimerClearedOnErrorEnvelope(res, tm) ==
    IF (~res.thrown /\ Truthy(res.env.error)) \/ PollCompleted(res) THEN "cleared" ELSE tm

\* What a poll response does to the timer: clearInterval on completed only.
TimerAfterPoll(res, tm) ==
    IF PollCompleted(res) THEN "cleared" ELSE tm

\* The values a poll response passes to onProgress (none or one).
PollProgress(res) ==
    IF PollHasData(res) THEN <<res.env.data.progress>> ELSE <<>>

\* Variant: the inline result is ignored and the result is always requested.
PollResultFetchesIgnoringInline(o, res) ==
    IF PollCompleted(res) THEN 1 ELSE 0

\* Number of result requests a poll response starts.
PollResultFetches(o, res) ==
    IF PollCompleted(res) /\ ~UsesInlineResult(o, res) THEN 1 ELSE 0

VARIABLES
    op,            \* the public function called ("none" before the call)
    cb,            \* whether the caller supplied onProgress
    url,           \* uploadYoutubeVideo: the remote URL
    pc,            \* position of the call
    ret,           \* the envelope the returned promise resolved with
    jobId,         \* the accepted job (NoId: no job accepted)
    submitEnv,     \* the envelope handleResponse gave for the submit response
    timer,         \* the polling interval: "none", "active", "cleared"
    pollsSent,     \* poll requests sent
    pollsInFlight, \* poll requests not answered yet
    pollLog,       \* the poll answers processed so far, in order of arrival
    observed,      \* the values passed to onProgress, in order
    resultFetches, \* result requests sent
    resultsInFlight, \* result requests not answered yet
    mockProgress,  \* the counter of the mock's simulated progress
    mockVideos,    \* ids of the in-memory list of the mock layer
    xhrEvents,     \* upload progress events delivered
    xhrLoaded,     \* chunks reported sent by the last upload progress event
    file,          \* uploadVideo: the file
    answer,        \* the answer to the request the caller waits for
    mockCalled     \* whether a function of the mock layer was invoked

\* mockProcessVideo and the records of mockVideos it writes to.
VARIABLES
    videoStatus,   \* status of each record of the in-memory list
    videoPlatform, \* platform of each record of the in-memory list
    jobs           \* the calls of mockProcessVideo

\* The upload form (UploadSection).
VARIABLES
    formError,     \* error ("" is null)
    internalIsUploading,
    uploadSuccess,
    formFiles,     \* files
    youtubeUrl,
    isYoutubeUrlValid,
    pending,       \* calls of the API client the form is waiting for
    selection,     \* the file list the last drop or file choice delivered
    lastHandler,   \* the handler of the form that ran last
    uploadArgs,    \* the files the form has passed to uploadVideo
    ytArgs,        \* the URLs the form has passed to uploadYoutubeVideo
    composedBy,    \* the page that renders the form: "none" (no props) or "Dashboard"
    isProcessing,  \* isProcessing of Dashboard, passed as the isUploading prop
    isVideoUploaded \* isVideoUploaded of Dashboard

\* The caption editor (CaptionEditor); times in tenths of a second.
VARIABLES
    captionPhase,  \* "unmounted", "ready"
    captionVideoId, \* the videoId prop ("" is undefined)
    startTime,     \* captionData.startTime
    endTime,       \* captionData.endTime
    captionError,  \* error ("" is null)
    isSaving,      \* isSaving
    saveSuccess,   \* saveSuccess
    savePending,   \* handleSave waits for api.saveCaption
    saveAnswer,    \* what api.saveCaption returned to the handleSave that ran last
    onSaveCalled   \* the handleSave that ran last has called onSave

apiVars == <<op, cb, url, pc, ret, jobId, submitEnv, timer, pollsSent, pollsInFlight,
             pollLog, observed, resultFetches, resultsInFlight, mockProgress,
             mockVideos, xhrEvents, xhrLoaded, file, answer, mockCalled>>

mockVars == <<videoStatus, videoPlatform, jobs>>

formVars == <<formError, internalIsUploading, uploadSuccess, formFiles, youtubeUrl,
              isYoutubeUrlValid, pending, selection, lastHandler, uploadArgs, ytArgs,
              composedBy, isProcessing, isVideoUploaded>>

captionVars == <<captionPhase, captionVideoId, startTime, endTime, captionError,
                 isSaving, saveSuccess, savePending, saveAnswer, onSaveCalled>>

\* The requests of the API client as the server sees them, and localStorage.
VARIABLES
    authToken,     \* localStorage "authToken" ("" is absent)
    storedUser,    \* localStorage "user" ("" is absent)
    lastRequest,   \* the request sent last
    authCalls,     \* calls of login and logout waiting for their response
    lastSettled,   \* the call of login or logout that settled last
    reqTimer       \* the job of the request log: "none", "submitted", "polling"

requestVars == <<authToken, storedUser, lastRequest, authCalls, lastSettled, reqTimer>>

\* The in-memory list of the mock layer over a sequence of mock calls.
VARIABLES
    mockList,      \* ids of the records of mockVideos, head first
    lastDeleted    \* id given to the mockDeleteVideo that ran last (NoId: none)

listVars == <<mockList, lastDeleted>>

\* VideoHistory.
VARIABLES
    videos,          \* ids of the displayed videos, in order
    selectedVideos,  \* selectedVideos
    isLoading,       \* isLoading
    isDeleting,      \* isDeleting
    historyError,    \* error ("" is null)
    fetchPending,    \* getUserVideos calls waiting for their answer
    deleting         \* the delete handler in progress and the ids it still has to delete

historyVars == <<videos, selectedVideos, isLoading, isDeleting, historyError,
                 fetchPending, deleting>>

\* VideoEditor.
VARIABLES
    rotation,               \* rotation
    crop,                   \* crop
    smartCropEnabled,       \* smartCropEnabled
    isProcessingSmartCrop,  \* isProcessingSmartCrop
    detectedSubjects,       \* detectedSubjects
    selectedSubject,        \* selectedSubject (NoSubject is null)
    cropTimers,             \* pending analysis timeouts: the detectedSubjects each closure holds
    lastEditorStep          \* the handler or callback of the editor that ran last

editorVars == <<rotation, crop, smartCropEnabled, isProcessingSmartCrop,
                detectedSubjects, selectedSubject, cropTimers, lastEditorStep>>

\* The components modelled after the caption editor.
restVars == <<requestVars, listVars, historyVars, editorVars>>

\* What the functions of the API client leave alone.
componentVars == <<mockVars, formVars, captionVars, restVars>>

vars == <<apiVars, mockVars, formVars, captionVars, restVars>>

NoAnswer == [kind |-> "none"]

\* The form waits for no call and no timeout.
NoPending == [upload |-> 0, youtube |-> 0, timeout |-> 0]

\* No delete handler of VideoHistory is running.
NoDelete == [kind |-> "none", queue |-> <<>>]

\* useState({ x: 0, y: 0, width: 100, height: 100 }) and useState(null).
Rect(x, y, width, height) == [x |-> x, y |-> y, width |-> width, height |-> height]
InitialCrop == Rect(0, 0, 100, 100)
NoSubject == -1

\* A request as sent: the function that sent it, method, path, the value of
\* its Authorization header ("" is no header), its body, and next to it the
\* token localStorage held when it was sent and the argument it was built from.
Request(fn, method, path, authorization, body, stored, arg) ==
    [fn |-> fn, method |-> method, path |-> path, authorization |-> authorization,
     body |-> body, stored |-> stored, arg |-> arg]

NoRequest == Request("none", "", "", "", Undefined, "", Undefined)

NoEnv == Envelope(Undefined, Undefined)

Init ==
    /\ op = "none"
    /\ cb = FALSE
    /\ url = NoUrl
    /\ pc = "idle"
    /\ ret = NoEnv
    /\ jobId = NoId
    /\ submitEnv = NoEnv
    /\ timer = "none"
    /\ pollsSent = 0
    /\ pollsInFlight = 0
    /\ pollLog = <<>>
    /\ observed = <<>>
    /\ resultFetches = 0
    /\ resultsInFlight = 0
    /\ mockProgress = 0
    /\ mockVideos = SeedVideos
    /\ xhrEvents = 0
    /\ xhrLoaded = 0
    /\ file = NoFile
    /\ answer = NoAnswer
    /\ mockCalled = FALSE
    /\ videoStatus = [id \in SeedIds |-> SeedStatus(id)]
    /\ videoPlatform = [id \in SeedIds |-> SeedPlatform(id)]
    /\ jobs = [j \in 1..MaxJobs |-> IdleJob]
    /\ formError = ""
    /\ internalIsUploading = FALSE
    /\ uploadSuccess = FALSE
    /\ formFiles = <<>>
    /\ youtubeUrl = ""
    /\ isYoutubeUrlValid = TRUE
    /\ pending = NoPending
    /\ composedBy = "none"
    /\ isProcessing = FALSE
    /\ isVideoUploaded = FALSE
    /\ selection = <<>>
    /\ lastHandler = "none"
    /\ uploadArgs = {}
    /\ ytArgs = {}
    /\ captionPhase = "unmounted"
    /\ captionVideoId = ""
    /\ startTime = 0
    /\ endTime = InitialEndTime
    /\ captionError = ""
    /\ isSaving = FALSE
    /\ saveSuccess = FALSE
    /\ savePending = FALSE
    /\ saveAnswer = NoEnv
    /\ onSaveCalled = FALSE
    /\ authToken = ""
    /\ storedUser = ""
    /\ lastRequest = NoRequest
    /\ authCalls = {}
    /\ lastSettled = "none"
    /\ reqTimer = "none"
    /\ mockList = SeedVideos
    /\ lastDeleted = NoId
    /\ videos = <<>>
    /\ selectedVideos = <<>>
    /\ isLoading = TRUE
    /\ isDeleting = FALSE
    /\ historyError = ""
    /\ fetchPending = 1
    /\ deleting = NoDelete
    /\ rotation = 0
    /\ crop = InitialCrop
    /\ smartCropEnabled = FALSE
    /\ isProcessingSmartCrop = FALSE
    /\ detectedSubjects = <<>>
    /\ selectedSubject = NoSubject
    /\ cropTimers = <<>>
    /\ lastEditorStep = "mount"


\* ------------------------------------------------------------- actions
\* The caller invokes one public function.  uploadYoutubeVideo reports
\* YtStartProgress before anything else; every function then sends its request.
Call(o, c, u) ==
    /\ pc = "idle"
    /\ op' = o
    /\ cb' = c
    /\ url' = IF o = "uploadYoutubeVideo" THEN u ELSE NoUrl
    /\ file' = IF o = "uploadVideo" THEN u ELSE NoFile
    /\ observed' = IF o = "uploadYoutubeVideo" /\ c THEN <<YtStartProgress>> ELSE <<>>
    /\ pc' = IF o = "uploadVideo" THEN "uploading" ELSE "submitting"
    /\ UNCHANGED <<ret, jobId, submitEnv, timer, pollsSent, pollsInFlight, pollLog,
                   resultFetches, resultsInFlight, mockProgress, mockVideos,
                   xhrEvents, xhrLoaded, answer, mockCalled>>
    /\ UNCHANGED componentVars

\* The inner catch of uploadYoutubeVideo: mockUploadYoutubeVideo validates the
\* URL and either rejects (the outer catch returns the message) or starts its
\* simulated progress.
MockEntry ==
    /\ mockCalled' = TRUE
    /\ IF getYoutubeVideoId(url) = ""
       THEN /\ ret' = CatchAsError(Thrown("Invalid YouTube URL"))
            /\ pc' = SettledAs(Thrown("Invalid YouTube URL"))
       ELSE /\ ret' = ret
            /\ pc' = "mock"

\* `result.data.jobId` raises a TypeError when data is undefined or null.
SubmitThrows(res) ==
    \/ res.thrown
    \/ (~SubmitRejected(res.env) /\ res.env.data.t \in {"undefined", "null"})

\* The answer to the submit request arrives: everything the function does up
\* to its return (or up to its next await).
SubmitResponse(o) ==
    /\ pc = "submitting"
    /\ o \in SubmitOutcomes(op)
    /\ LET res == CallResult(o) IN
       IF op = "getUserVideos"
       THEN /\ ret' = CatchAsError(res)
            /\ pc' = SettledAs(res)
            /\ UNCHANGED <<jobId, submitEnv, timer, observed, resultFetches,
                           resultsInFlight, mockCalled>>
       ELSE IF SubmitThrows(res)
       THEN /\ submitEnv' = res.env
            /\ IF op = "uploadYoutubeVideo"
               THEN MockEntry
               ELSE LET ex == IF res.thrown THEN res ELSE Thrown(NullRead) IN
                    /\ ret' = CatchAsError(ex)
                    /\ pc' = SettledAs(ex)
                    /\ UNCHANGED mockCalled
            /\ UNCHANGED <<jobId, timer, observed, resultFetches, resultsInFlight>>
       ELSE IF SubmitRejected(res.env)
       THEN /\ submitEnv' = res.env
            /\ ret' = res.env
            /\ pc' = "returned"
            /\ UNCHANGED <<jobId, timer, observed, resultFetches, resultsInFlight,
                           mockCalled>>
       ELSE /\ submitEnv' = res.env
            /\ jobId' = JobIdOf(res.env)
            /\ UNCHANGED mockCalled
            /\ IF StartsPolling(cb)
               THEN /\ observed' = IF op = "uploadYoutubeVideo" /\ cb
                                   THEN Append(observed, YtAcceptedProgress)
                                   ELSE observed
                    /\ timer' = "active"
                    /\ ret' = Placeholder(op, JobIdOf(res.env))
                    /\ pc' = "returned"
                    /\ UNCHANGED <<resultFetches, resultsInFlight>>
               ELSE IF op = "uploadYoutubeVideo"
               THEN /\ resultFetches' = resultFetches + 1
                    /\ resultsInFlight' = resultsInFlight + 1
                    /\ pc' = "resultWait"
                    /\ UNCHANGED <<ret, timer, observed>>
               ELSE /\ ret' = Placeholder(op, JobIdOf(res.env))
                    /\ pc' = "returned"
                    /\ UNCHANGED <<timer, observed, resultFetches, resultsInFlight>>
    /\ answer' = o
    /\ UNCHANGED <<op, cb, url, pollsSent, pollsInFlight, pollLog, mockProgress,
                   mockVideos, xhrEvents, xhrLoaded, file>>
    /\ UNCHANGED componentVars

\* The interval fires: one more poll request is sent, whether or not earlier
\* ones were answered.
Tick ==
    /\ timer = "active"
    /\ pollsSent < MaxTicks
    /\ pollsSent' = pollsSent + 1
    /\ pollsInFlight' = pollsInFlight + 1
    /\ UNCHANGED <<op, cb, url, pc, ret, jobId, submitEnv, timer, pollLog, observed,
                   resultFetches, resultsInFlight, mockProgress, mockVideos,
                   xhrEvents, xhrLoaded, file, answer, mockCalled>>
    /\ UNCHANGED componentVars

\* The answer to one poll request arrives and the timer callback resumes.
PollResponse(o) ==
    /\ pollsInFlight > 0
    /\ o \in PollOutcomes
    /\ LET res == CallResult(o) IN
       /\ pollsInFlight' = pollsInFlight - 1
       /\ pollLog' = Append(pollLog, o)
       /\ observed' = observed \o PollProgress(res)
       /\ timer' = TimerAfterPoll(res, timer)
       /\ resultFetches' = resultFetches + PollResultFetches(op, res)
       /\ resultsInFlight' = resultsInFlight + PollResultFetches(op, res)
    /\ UNCHANGED <<op, cb, url, pc, ret, jobId, submitEnv, pollsSent, mockProgress,
                   mockVideos, xhrEvents, xhrLoaded, file, answer, mockCalled>>
    /\ UNCHANGED componentVars

\* The answer to a result request arrives.  Inside the timer callback its
\* envelope is returned to the timer and lost; uploadYoutubeVideo without a
\* callback returns it (or falls back to the mock when the request throws).
ResultResponse(o) ==
    /\ resultsInFlight > 0
    /\ o \in ResultOutcomes(op)
    /\ resultsInFlight' = resultsInFlight - 1
    /\ LET res == CallResult(o) IN
       IF pc = "resultWait"
       THEN /\ answer' = o
            /\ IF res.thrown
               THEN MockEntry
               ELSE /\ ret' = res.env
                    /\ pc' = "returned"
                    /\ UNCHANGED mockCalled
       ELSE UNCHANGED <<ret, pc, answer, mockCalled>>
    /\ UNCHANGED <<op, cb, url, jobId, submitEnv, timer, pollsSent, pollsInFlight,
                   pollLog, observed, resultFetches, mockProgress, mockVideos,
                   xhrEvents, xhrLoaded, file>>
    /\ UNCHANGED componentVars


\* ------------------------------------------------- uploadVideo and the mock
\* Answers to the upload request: status and responseText.
UploadOutcomes ==
    { Http(TRUE, TRUE, Video(Id("srv9"), "completed", "server")),
      Http(TRUE, TRUE, Null),
      Http(TRUE, FALSE, Malformed),
      Http(FALSE, TRUE, MsgObj("file too large")),
      Http(FALSE, TRUE, PlainObj),
      Http(FALSE, TRUE, Null),
      Http(FALSE, FALSE, Malformed) }

\* Math.round((event.loaded / event.total) * 100)
XhrPercent(loaded, total) ==
    (200 * loaded + total) \div (2 * total)

\* The "load" listener of uploadVideo: what the promise resolves with; an
\* exception of JSON.parse on a success status leaves the promise pending.
xhrOnLoad(o) ==
    IF o.ok
    THEN IF o.body = Malformed
         THEN Thrown(ParseFailed)
         ELSE Returned(DataEnv(o.body))
    ELSE IF o.body.t = "msg"
         THEN Returned(Envelope(Undefined, Str(o.body.message)))
         ELSE Returned(ErrorEnv("Upload failed"))

\* The "progress" listener of xhr.upload.
XhrProgress(loaded, computable) ==
    /\ pc = "uploading"
    /\ xhrEvents < MaxXhrEvents
    /\ loaded \in xhrLoaded..XhrTotal
    /\ xhrEvents' = xhrEvents + 1
    /\ xhrLoaded' = loaded
    /\ observed' = IF computable /\ cb
                   THEN Append(observed, XhrPercent(loaded, XhrTotal))
                   ELSE observed
    /\ UNCHANGED <<op, cb, url, pc, ret, jobId, submitEnv, timer, pollsSent,
                   pollsInFlight, pollLog, resultFetches, resultsInFlight,
                   mockProgress, mockVideos, file, answer, mockCalled>>
    /\ UNCHANGED componentVars

\* The "load" listener of the upload request.
XhrLoad(o) ==
    /\ pc = "uploading"
    /\ o \in UploadOutcomes
    /\ LET res == xhrOnLoad(o) IN
       IF res.thrown
       THEN /\ pc' = "hung"
            /\ ret' = ret
       ELSE /\ pc' = "returned"
            /\ ret' = res.env
    /\ answer' = o
    /\ UNCHANGED <<op, cb, url, jobId, submitEnv, timer, pollsSent, pollsInFlight,
                   pollLog, observed, resultFetches, resultsInFlight, mockProgress,
                   mockVideos, xhrEvents, xhrLoaded, file, mockCalled>>
    /\ UNCHANGED componentVars

\* The "error" listener of the upload request: mockUploadVideo takes over.
XhrError ==
    /\ pc = "uploading"
    /\ pc' = "mock"
    /\ answer' = Throw
    /\ mockCalled' = TRUE
    /\ UNCHANGED <<op, cb, url, ret, jobId, submitEnv, timer, pollsSent, pollsInFlight,
                   pollLog, observed, resultFetches, resultsInFlight, mockProgress,
                   mockVideos, xhrEvents, xhrLoaded, file>>
    /\ UNCHANGED componentVars

\* Variant: the size is cut to whole megabytes.
FormatMBWhole(size) ==
    ToString(size \div 1048576) \o " MB"

\* The record a mock synthesizes once its progress is complete.
\* `${(file.size / (1024 * 1024)).toFixed(2)} MB`: the size in hundredths of
\* a megabyte, rounded to the nearest, printed with two decimals.
FormatMB(size) ==
    LET h == (200 * size + 1048576) \div 2097152
        frac == h % 100
    IN ToString(h \div 100) \o "." \o (IF frac < 10 THEN "0" ELSE "") \o ToString(frac) \o " MB"

MockRecord ==
    IF op = "uploadYoutubeVideo"
    THEN [name |-> "YouTube Import", size |-> "32.7 MB",
          thumbnail |-> "https://img.youtube.com/vi/" \o getYoutubeVideoId(url)
                            \o "/mqdefault.jpg"]
            @@ Video(YtId(getYoutubeVideoId(url)), "completed", "mock")
    ELSE [name |-> file.name, size |-> FormatMB(file.size),
          thumbnail |-> "https://images.unsplash.com/photo-1611162616475-46b635cb6868?w=120&q=80"]
            @@ Video(RandomId, "completed", "mock")

\* One tick of the mock's interval: the counter advances by MockStep, the value
\* is reported, and at MockDone the interval is cleared and the record is put
\* at the head of mockVideos.
MockTick ==
    /\ pc = "mock"
    /\ mockProgress' = mockProgress + MockStep
    /\ observed' = IF cb THEN Append(observed, mockProgress + MockStep) ELSE observed
    /\ IF mockProgress + MockStep >= MockDone
       THEN /\ mockVideos' = <<MockRecord.id>> \o mockVideos
            /\ pc' = "mockResolve"
       ELSE UNCHANGED <<mockVideos, pc>>
    /\ UNCHANGED <<op, cb, url, ret, jobId, submitEnv, timer, pollsSent, pollsInFlight,
                   pollLog, resultFetches, resultsInFlight, xhrEvents, xhrLoaded,
                   file, answer, mockCalled>>
    /\ UNCHANGED componentVars

\* The mock's setTimeout resolves the promise with the record.
MockResolve ==
    /\ pc = "mockResolve"
    /\ ret' = DataEnv(MockRecord)
    /\ pc' = "returned"
    /\ UNCHANGED <<op, cb, url, jobId, submitEnv, timer, pollsSent, pollsInFlight,
                   pollLog, observed, resultFetches, resultsInFlight, mockProgress,
                   mockVideos, xhrEvents, xhrLoaded, file, answer, mockCalled>>
    /\ UNCHANGED componentVars

\* ------------------------------------------------------- specification
UrlsOf(o) ==
    CASE o = "uploadYoutubeVideo" -> Urls
      [] o = "uploadVideo" -> Files
      [] OTHER -> {NoUrl}

Next ==
    \/ \E o \in Ops, c \in BOOLEAN : \E u \in UrlsOf(o) : Call(o, c, u)
    \/ \E o \in SubmitOutcomes(op) : SubmitResponse(o)
    \/ Tick
    \/ \E o \in PollOutcomes : PollResponse(o)
    \/ \E o \in ResultOutcomes(op) : ResultResponse(o)
    \/ \E l \in 0..XhrTotal, k \in BOOLEAN : XhrProgress(l, k)
    \/ \E o \in UploadOutcomes : XhrLoad(o)
    \/ XhrError
    \/ MockTick
    \/ MockResolve

Spec == Init /\ [][Next]_vars


\* ---------------------------------------------------- mockProcessVideo
\* Video ids a caller passes and the platform of its settings ("" is none).
ProcessIds == SeedIds \cup {UnknownId}
SettingsPlatforms == {"", "TikTok"}

\* mockProcessVideo(videoId, settings, onProgress): the executor of its
\* promise.  An unknown id throws, which rejects the promise; otherwise the
\* record's status and platform are written and the interval is started.
mockProcessVideo(j, videoId, platform) ==
    /\ jobs[j].state = "idle"
    /\ IF videoId \notin SeedIds
       THEN /\ jobs' = [jobs EXCEPT ![j] = [state |-> "rejected", video |-> videoId, progress |-> 0]]
            /\ UNCHANGED <<videoStatus, videoPlatform>>
       ELSE /\ videoStatus' = [videoStatus EXCEPT ![videoId] = "processing"]
            /\ videoPlatform' = [videoPlatform EXCEPT
                                    ![videoId] = IF platform = "" THEN "YouTube" ELSE platform]
            /\ jobs' = [jobs EXCEPT ![j] = [state |-> "running", video |-> videoId, progress |-> 0]]
    /\ UNCHANGED <<apiVars, formVars, captionVars, restVars>>

\* One tick of the interval of call j: the counter advances by ProcessStep;
\* at ProcessDone the interval is cleared and the record is set "completed".
ProcessTick(j) ==
    /\ jobs[j].state = "running"
    /\ LET progress == jobs[j].progress + ProcessStep IN
       IF progress >= ProcessDone
       THEN /\ videoStatus' = [videoStatus EXCEPT ![jobs[j].video] = "completed"]
            /\ jobs' = [jobs EXCEPT ![j].progress = progress, ![j].state = "resolving"]
       ELSE /\ jobs' = [jobs EXCEPT ![j].progress = progress]
            /\ UNCHANGED videoStatus
    /\ UNCHANGED <<videoPlatform, apiVars, formVars, captionVars, restVars>>

\* The setTimeout of call j resolves its promise with a copy of the record.
ProcessResolve(j) ==
    /\ jobs[j].state = "resolving"
    /\ jobs' = [jobs EXCEPT ![j].state = "resolved"]
    /\ UNCHANGED <<videoStatus, videoPlatform, apiVars, formVars, captionVars, restVars>>

NextMockProcess ==
    \/ \E j \in 1..MaxJobs, id \in ProcessIds, p \in SettingsPlatforms : mockProcessVideo(j, id, p)
    \/ \E j \in 1..MaxJobs : ProcessTick(j)
    \/ \E j \in 1..MaxJobs : ProcessResolve(j)

SpecMockProcess == Init /\ [][NextMockProcess]_vars


\* ------------------------------------------------ the upload form
\* Files a user drops or chooses; size in bytes.
FormFiles ==
    { [name |-> "clip.MP4", size |-> 10485760],
      [name |-> "big.mp4", size |-> 629145600],
      [name |-> "notes.txt", size |-> 1024] }

\* The file lists of one drop.
Selections ==
    UNION {[1..n -> FormFiles] : n \in 1..MaxSelection}

\* Texts a user types into the URL field.
FormUrls == {"", "https://youtu.be/dQw4w9WgXcQ", "https://youtu.be/short"}

\* String.prototype.toLowerCase, letter by letter.
Uppers == "ABCDEFGHIJKLMNOPQRSTUVWXYZ"
Lowers == "abcdefghijklmnopqrstuvwxyz"
LowerOf(c) ==
    IF \E i \in 1..Len(Uppers) : SubSeq(Uppers, i, i) = c
    THEN LET i == CHOOSE k \in 1..Len(Uppers) : SubSeq(Uppers, k, k) = c
         IN SubSeq(Lowers, i, i)
    ELSE c

RECURSIVE toLowerCase(_)
toLowerCase(s) ==
    IF Len(s) = 0 THEN "" ELSE LowerOf(Ch(s, 1)) \o toLowerCase(SubSeq(s, 2, Len(s)))

\* `.${file.name.split(".").pop()?.toLowerCase()}`
Extension(name) ==
    LET dots == {i \in 1..Len(name) : Ch(name, i) = "."}
        last == IF dots = {} THEN 0 ELSE CHOOSE i \in dots : \A k \in dots : k <= i
    IN "." \o toLowerCase(SubSeq(name, last + 1, Len(name)))

supportedFormats == {".mp4", ".mov", ".avi", ".mkv", ".webm"}

\* The message validateFiles sets for one file ("": the file is valid).
FileError(f) ==
    IF Extension(f.name) \notin supportedFormats
    THEN "Unsupported file format: " \o Extension(f.name)
            \o ". Please use: .mp4, .mov, .avi, .mkv, .webm"
    ELSE IF f.size > MaxFileSizeMB * 1024 * 1024
         THEN "File too large: " \o f.name \o ". Maximum size is "
                 \o ToString(MaxFileSizeMB) \o "MB"
         ELSE ""

IsValidFile(f) == FileError(f) = ""
IsInvalidFile(f) == FileError(f) # ""

\* validateFiles: the files it returns, and the error it leaves (each invalid
\* file overwrites the message of the one before).
validateFiles(fileList) == SelectSeq(fileList, IsValidFile)

ValidationError(fileList) ==
    LET bad == SelectSeq(fileList, IsInvalidFile)
    IN IF bad = <<>> THEN "" ELSE FileError(bad[Len(bad)])

\* handleDrop / handleFileInputChange: validateFiles, then setFiles and
\* handleUpload up to its await when a file is valid.  handleUpload clears the
\* error and passes the first valid file to uploadVideo.
\* The isUploading the form works with: the prop when the page passes one,
\* its own state otherwise.  Its setter is the page's only when the page
\* passes setIsUploading, which Dashboard does not.
isUploading ==
    IF composedBy = "Dashboard" THEN isProcessing ELSE internalIsUploading

PendingTotal == pending.upload + pending.youtube + pending.timeout

formRest == <<apiVars, mockVars, captionVars, restVars>>

SelectFiles(fileList, handler) ==
    /\ selection' = fileList
    /\ lastHandler' = handler
    /\ LET validFiles == validateFiles(fileList) IN
       IF Len(validFiles) > 0
       THEN /\ PendingTotal < MaxPending
            /\ formFiles' = validFiles
            /\ internalIsUploading' = TRUE
            /\ formError' = ""
            /\ uploadSuccess' = FALSE
            /\ uploadArgs' = uploadArgs \cup {validFiles[1]}
            /\ pending' = [pending EXCEPT !.upload = @ + 1]
       ELSE /\ formError' = ValidationError(fileList)
            /\ UNCHANGED <<formFiles, internalIsUploading, uploadSuccess, uploadArgs, pending>>
    /\ UNCHANGED <<youtubeUrl, isYoutubeUrlValid, ytArgs, composedBy, isProcessing,
                   isVideoUploaded, formRest>>

\* The drop zone takes no pointer events while isUploading.
handleDrop(fileList) ==
    /\ ~isUploading
    /\ SelectFiles(fileList, "handleDrop")

\* The file input takes one file and is disabled while isUploading or
\* uploadSuccess.
handleFileInputChange(f) ==
    /\ ~isUploading /\ ~uploadSuccess
    /\ SelectFiles(<<f>>, "handleFileInputChange")

\* The URL field (shown, like the import button, while neither uploadSuccess
\* nor isUploading).
handleYoutubeUrlChange(u) ==
    /\ ~isUploading /\ ~uploadSuccess
    /\ youtubeUrl' = u
    /\ isYoutubeUrlValid' = (u = "" \/ validateYoutubeUrl(u))
    /\ lastHandler' = "handleYoutubeUrlChange"
    /\ UNCHANGED <<formError, internalIsUploading, uploadSuccess, formFiles, pending,
                   selection, uploadArgs, ytArgs, composedBy, isProcessing,
                   isVideoUploaded, formRest>>

\* The button is disabled while the field is empty or marked invalid.
handleYoutubeUpload ==
    /\ ~isUploading /\ ~uploadSuccess
    /\ youtubeUrl # "" /\ isYoutubeUrlValid
    /\ lastHandler' = "handleYoutubeUpload"
    /\ IF youtubeUrl = "" \/ ~validateYoutubeUrl(youtubeUrl)
       THEN /\ isYoutubeUrlValid' = FALSE
            /\ UNCHANGED <<internalIsUploading, formError, uploadSuccess, ytArgs, pending>>
       ELSE /\ PendingTotal < MaxPending
            /\ internalIsUploading' = TRUE
            /\ formError' = ""
            /\ uploadSuccess' = FALSE
            /\ ytArgs' = ytArgs \cup {youtubeUrl}
            /\ pending' = [pending EXCEPT !.youtube = @ + 1]
            /\ UNCHANGED isYoutubeUrlValid
    /\ UNCHANGED <<formFiles, youtubeUrl, selection, uploadArgs, composedBy, isProcessing,
                   isVideoUploaded, formRest>>

\* A call the form waits for resolves: with an error envelope, or with a
\* record (setIsUploading(false) then follows by a timeout one second later,
\* and onVideoSelected tells the page, if any, that a video is there).
FormSettles(call, failed) ==
    /\ call \in {"upload", "youtube"}
    /\ pending[call] > 0
    /\ lastHandler' = "settled"
    /\ IF failed
       THEN /\ formError' = "Upload failed"
            /\ internalIsUploading' = FALSE
            /\ pending' = [pending EXCEPT ![call] = @ - 1]
            /\ UNCHANGED <<uploadSuccess, isVideoUploaded>>
       ELSE /\ uploadSuccess' = TRUE
            /\ pending' = [pending EXCEPT ![call] = @ - 1, !.timeout = @ + 1]
            /\ isVideoUploaded' = (isVideoUploaded \/ composedBy = "Dashboard")
            /\ UNCHANGED <<formError, internalIsUploading>>
    /\ UNCHANGED <<formFiles, youtubeUrl, isYoutubeUrlValid, selection, uploadArgs, ytArgs,
                   composedBy, isProcessing, formRest>>

FormTimeout ==
    /\ pending.timeout > 0
    /\ internalIsUploading' = FALSE
    /\ pending' = [pending EXCEPT !.timeout = @ - 1]
    /\ lastHandler' = "timeout"
    /\ UNCHANGED <<formError, uploadSuccess, formFiles, youtubeUrl, isYoutubeUrlValid,
                   selection, uploadArgs, ytArgs, composedBy, isProcessing,
                   isVideoUploaded, formRest>>

\* The "upload another" button of the success view.
resetUpload ==
    /\ uploadSuccess
    /\ formFiles' = <<>>
    /\ uploadSuccess' = FALSE
    /\ formError' = ""
    /\ lastHandler' = "resetUpload"
    /\ UNCHANGED <<internalIsUploading, youtubeUrl, isYoutubeUrlValid, pending, selection,
                   uploadArgs, ytArgs, composedBy, isProcessing, isVideoUploaded, formRest>>

NextForm ==
    \/ \E fileList \in Selections : handleDrop(fileList)
    \/ \E f \in FormFiles : handleFileInputChange(f)
    \/ \E u \in FormUrls : handleYoutubeUrlChange(u)
    \/ handleYoutubeUpload
    \/ \E call \in {"upload", "youtube"}, failed \in BOOLEAN : FormSettles(call, failed)
    \/ FormTimeout
    \/ resetUpload

SpecForm == Init /\ [][NextForm]_vars

\* --------------------------------------- the upload form in Dashboard
\* Dashboard renders <UploadSection onFileUpload=... isUploading={isProcessing}
\* onVideoSelected=... />.
MountInDashboard ==
    /\ composedBy = "none"
    /\ lastHandler = "none"
    /\ composedBy' = "Dashboard"
    /\ UNCHANGED <<formError, internalIsUploading, uploadSuccess, formFiles, youtubeUrl,
                   isYoutubeUrlValid, pending, selection, lastHandler, uploadArgs, ytArgs,
                   isProcessing, isVideoUploaded, formRest>>

\* Export (disabled while isProcessing): up to the await of the 3 s timeout.
\* The form's effect on isUploading resets uploadSuccess.
handleProcessVideo ==
    /\ composedBy = "Dashboard"
    /\ isVideoUploaded
    /\ ~isProcessing
    /\ isProcessing' = TRUE
    /\ uploadSuccess' = FALSE
    /\ lastHandler' = "handleProcessVideo"
    /\ UNCHANGED <<formError, internalIsUploading, formFiles, youtubeUrl, isYoutubeUrlValid,
                   pending, selection, uploadArgs, ytArgs, composedBy, isVideoUploaded,
                   formRest>>

\* The timeout of handleProcessVideo: finally setIsProcessing(false).
ProcessVideoDone ==
    /\ isProcessing
    /\ isProcessing' = FALSE
    /\ lastHandler' = "processed"
    /\ UNCHANGED <<formError, internalIsUploading, uploadSuccess, formFiles, youtubeUrl,
                   isYoutubeUrlValid, pending, selection, uploadArgs, ytArgs, composedBy,
                   isVideoUploaded, formRest>>

\* What the user of the page does with the form: drops of one file, the two
\* kinds of URL.
DashboardDrops == {<<f>> : f \in FormFiles}
DashboardUrls == {"https://youtu.be/dQw4w9WgXcQ", "https://youtu.be/short"}

NextDashboard ==
    \/ MountInDashboard
    \/ handleProcessVideo
    \/ ProcessVideoDone
    \/ composedBy = "Dashboard" /\ \E fileList \in DashboardDrops : handleDrop(fileList)
    \/ composedBy = "Dashboard" /\ \E f \in FormFiles : handleFileInputChange(f)
    \/ composedBy = "Dashboard" /\ \E u \in DashboardUrls : handleYoutubeUrlChange(u)
    \/ composedBy = "Dashboard" /\ handleYoutubeUpload
    \/ composedBy = "Dashboard"
          /\ \E call \in {"upload", "youtube"}, failed \in BOOLEAN : FormSettles(call, failed)
    \/ composedBy = "Dashboard" /\ FormTimeout
    \/ composedBy = "Dashboard" /\ resetUpload

SpecDashboard == Init /\ [][NextDashboard]_vars



\* ------------------------------------------------ the caption editor
\* The videoId prop of a mounted editor ("" is undefined).
CaptionVideoIds == {"", "video1"}

\* Positions the sliders deliver (min, max, step 0.1): the start slider runs
\* from 0 to SliderMax, the end slider from startTime + EndGap to SliderMax.
StartStops == {v \in 0..SliderMax : v % TimeGrid = 0}
EndStops(start) ==
    {v \in (start + EndGap)..SliderMax : (v - (start + EndGap)) % TimeGrid = 0}

\* handleChange(field, value): the one field is replaced, nothing else.
handleChange(field, value) ==
    /\ captionPhase = "ready"
    /\ startTime' = IF field = "startTime" THEN value ELSE startTime
    /\ endTime' = IF field = "endTime" THEN value ELSE endTime
    /\ UNCHANGED <<captionPhase, captionVideoId, captionError, isSaving, saveSuccess,
                   savePending, saveAnswer, onSaveCalled>>
    /\ UNCHANGED <<apiVars, mockVars, formVars, restVars>>

\* The editor mounts with the initial captionData; with a videoId its effect
\* calls api.getCaption, which the api object does not have, so the call
\* throws and the catch sets the error.
MountCaption(videoId) ==
    /\ captionPhase = "unmounted"
    /\ captionPhase' = "ready"
    /\ captionVideoId' = videoId
    /\ captionError' = IF videoId = "" THEN "" ELSE "Failed to load caption data"
    /\ UNCHANGED <<startTime, endTime, isSaving, saveSuccess, savePending, saveAnswer,
                   onSaveCalled>>
    /\ UNCHANGED <<apiVars, mockVars, formVars, restVars>>

\* Reading a field of an object: undefined when the object has no such field.
ReadField(obj, field) ==
    IF field \in DOMAIN obj THEN obj[field] ELSE Undefined

\* Answers to the request of saveCaption.
SaveOutcomes ==
    { Throw,
      Http(TRUE, TRUE, PlainObj),
      Http(TRUE, TRUE, Null),
      Http(FALSE, TRUE, MsgObj("Caption rejected")) }

\* handleSave up to its await (the button is disabled while isSaving):
\* without a videoId the error is set and the handler returns.
handleSave ==
    /\ captionPhase = "ready"
    /\ ~isSaving
    /\ IF captionVideoId = ""
       THEN /\ captionError' = "No video selected for captioning"
            /\ UNCHANGED <<isSaving, saveSuccess, savePending, saveAnswer, onSaveCalled>>
       ELSE /\ isSaving' = TRUE
            /\ saveSuccess' = FALSE
            /\ captionError' = ""
            /\ savePending' = TRUE
            /\ saveAnswer' = NoEnv
            /\ onSaveCalled' = FALSE
    /\ UNCHANGED <<captionPhase, captionVideoId, startTime, endTime, apiVars, mockVars,
                   formVars, restVars>>

\* api.saveCaption settles with its envelope (of data and error) and
\* handleSave runs to its end: `if (response.success) {...} else throw new
\* Error(response.message || "Failed to save caption")`, the catch sets the
\* error, finally setIsSaving(false).
SaveAnswered(o) ==
    /\ savePending
    /\ o \in SaveOutcomes
    /\ LET response == CatchAsError(CallResult(o)) IN
       /\ saveAnswer' = response
       /\ IF Truthy(ReadField(response, "success"))
          THEN /\ saveSuccess' = TRUE
               /\ onSaveCalled' = TRUE
               /\ UNCHANGED captionError
          ELSE /\ captionError' = IF Truthy(ReadField(response, "message"))
                                  THEN ReadField(response, "message").s
                                  ELSE "Failed to save caption"
               /\ UNCHANGED <<saveSuccess, onSaveCalled>>
    /\ isSaving' = FALSE
    /\ savePending' = FALSE
    /\ UNCHANGED <<captionPhase, captionVideoId, startTime, endTime, apiVars, mockVars,
                   formVars, restVars>>

NextCaption ==
    \/ \E v \in CaptionVideoIds : MountCaption(v)
    \/ \E v \in StartStops : handleChange("startTime", v)
    \/ \E v \in EndStops(startTime) : handleChange("endTime", v)
    \/ handleSave
    \/ \E o \in SaveOutcomes : SaveAnswered(o)

SpecCaption == Init /\ [][NextCaption]_vars


\* ------------------------------------- requests and the stored token
\* Variant: no Authorization header is ever built.
getAuthHeadersBare(token) == ""

\* getAuthHeaders: `token ? { Authorization: `Bearer ${token}` } : {}` with the
\* token read from localStorage at the moment of the call.
getAuthHeaders(token) ==
    IF token # "" THEN "Bearer " \o token ELSE ""

\* The functions that send one request with getAuthHeaders(): method and path.
PlainRequests ==
    { <<"getUserVideos", "GET", "/api/videos">>,
      <<"getVideoById", "GET", "/api/videos/video1">>,
      <<"deleteVideo", "DELETE", "/api/videos/video1">>,
      <<"detectSubjectsInVideo", "POST", "/api/videos/video1/detect-subjects">>,
      <<"analyzeVideoEngagement", "POST", "/api/videos/video1/analyze-engagement">>,
      <<"getCaptions", "GET", "/api/videos/video1/captions">>,
      <<"getVideoAnalytics", "GET", "/api/analytics/videos?timeRange=7d">>,
      <<"getFeatureAnalytics", "GET", "/api/analytics/features">>,
      <<"getPlatformAnalytics", "GET", "/api/analytics/platforms">> }

\* The submit request of each job operation, and the requests of its timer.
JobRequests ==
    { <<"processVideo", "POST", "/api/videos/video1/process">>,
      <<"generateClips", "POST", "/api/videos/video1/clips/generate">>,
      <<"uploadYoutubeVideo", "POST", "/api/videos/youtube/download">> }

TimerRequests ==
    { <<"poll", "GET", "/api/jobs/job1/progress">>,
      <<"videoResult", "GET", "/api/videos/video1">>,
      <<"clipsResult", "GET", "/api/videos/video1/clips">>,
      <<"jobResult", "GET", "/api/jobs/job1/result">> }

\* A number as a JS value.
Num(n) == [t |-> "num", n |-> n]

\* Captions a caller passes to saveCaption: without id, with an empty id,
\* with an id.
Caption(id) ==
    [id |-> id, videoId |-> Str("video1"), text |-> Str("Hello"),
     startTime |-> Num(0), endTime |-> Num(5)]

Captions == {Caption(Undefined), Caption(Str("")), Caption(Str("c7"))}

\* JSON.stringify of an object: the fields whose value is undefined are left
\* out, the others are written as they are.
Stringify(obj) ==
    [f \in {g \in DOMAIN obj : obj[g] # Undefined} |-> obj[f]]

\* Variant: every caption is created.
CaptionMethodCreate(caption) == "POST"

\* `caption.id ? "PUT" : "POST"` and the URL chosen the same way.
CaptionMethod(caption) ==
    IF Truthy(caption.id) THEN "PUT" ELSE "POST"

CaptionPath(caption) ==
    IF Truthy(caption.id) THEN "/api/captions/" \o caption.id.s ELSE "/api/captions"

\* Answers to the login request.
LoginObj(token) == [t |-> "login", token |-> token]
LoginOutcomes ==
    { Throw,
      Http(TRUE, TRUE, LoginObj("tokA")),
      Http(TRUE, TRUE, LoginObj("tokB")),
      Http(TRUE, TRUE, LoginObj("")),
      Http(TRUE, TRUE, Null),
      Http(FALSE, TRUE, MsgObj("bad credentials")) }

\* Answers to the logout request: fetch resolves for every status.
LogoutOutcomes ==
    { Throw, Http(TRUE, TRUE, PlainObj), Http(FALSE, TRUE, MsgObj("session expired")) }

notRequestVars == <<apiVars, mockVars, formVars, captionVars, listVars, historyVars,
                    editorVars>>

\* login and signup send their request with a Content-Type header only.
login ==
    /\ "login" \notin authCalls
    /\ lastRequest' = Request("login", "POST", "/api/auth/login", "", Str("credentials"),
                              authToken, Undefined)
    /\ authCalls' = authCalls \cup {"login"}
    /\ UNCHANGED <<authToken, storedUser, lastSettled, reqTimer, notRequestVars>>

\* `if (result.data && result.data.token)` stores token and user.
LoginResponse(o) ==
    /\ "login" \in authCalls
    /\ o \in LoginOutcomes
    /\ authCalls' = authCalls \ {"login"}
    /\ lastSettled' = "login"
    /\ LET res == CallResult(o) IN
       IF ~res.thrown /\ Truthy(res.env.data) /\ res.env.data.t = "login"
             /\ res.env.data.token # ""
       THEN /\ authToken' = res.env.data.token
            /\ storedUser' = "user"
       ELSE UNCHANGED <<authToken, storedUser>>
    /\ UNCHANGED <<lastRequest, reqTimer, notRequestVars>>

signup ==
    /\ lastRequest' = Request("signup", "POST", "/api/auth/signup", "", Str("credentials"),
                              authToken, Undefined)
    /\ UNCHANGED <<authToken, storedUser, authCalls, lastSettled, reqTimer, notRequestVars>>

logout ==
    /\ "logout" \notin authCalls
    /\ lastRequest' = Request("logout", "POST", "/api/auth/logout",
                              getAuthHeaders(authToken), Undefined, authToken, Undefined)
    /\ authCalls' = authCalls \cup {"logout"}
    /\ UNCHANGED <<authToken, storedUser, lastSettled, reqTimer, notRequestVars>>

\* The two removeItem calls follow `await fetch(...)` inside the try: they
\* run for every response and are skipped when fetch throws.
LogoutResponse(o) ==
    /\ "logout" \in authCalls
    /\ o \in LogoutOutcomes
    /\ authCalls' = authCalls \ {"logout"}
    /\ lastSettled' = "logout"
    /\ IF o.kind = "throw"
       THEN UNCHANGED <<authToken, storedUser>>
       ELSE /\ authToken' = ""
            /\ storedUser' = ""
    /\ UNCHANGED <<lastRequest, reqTimer, notRequestVars>>

\* One of the plain functions sends its request.
PlainCall(r) ==
    /\ r \in PlainRequests
    /\ lastRequest' = Request(r[1], r[2], r[3], getAuthHeaders(authToken), Undefined,
                              authToken, Undefined)
    /\ UNCHANGED <<authToken, storedUser, authCalls, lastSettled, reqTimer, notRequestVars>>

\* A job operation sends its submit request; the server accepts the job (the
\* timer starts) or not.
JobCall(r) ==
    /\ r \in JobRequests
    /\ reqTimer = "none"
    /\ lastRequest' = Request(r[1], r[2], r[3], getAuthHeaders(authToken), Str("settings"),
                              authToken, Undefined)
    /\ reqTimer' = "submitted"
    /\ UNCHANGED <<authToken, storedUser, authCalls, lastSettled, notRequestVars>>

JobAnswered(accepted) ==
    /\ reqTimer = "submitted"
    /\ reqTimer' = IF accepted THEN "polling" ELSE "none"
    /\ UNCHANGED <<authToken, storedUser, lastRequest, authCalls, lastSettled,
                   notRequestVars>>

\* The timer's callback sends a poll request, or (the interval cleared) the
\* request for the result.
TimerRequest(r) ==
    /\ r \in TimerRequests
    /\ reqTimer = "polling"
    /\ lastRequest' = Request(r[1], r[2], r[3], getAuthHeaders(authToken), Undefined,
                              authToken, Undefined)
    /\ reqTimer' = IF r[1] = "poll" THEN reqTimer ELSE "none"
    /\ UNCHANGED <<authToken, storedUser, authCalls, lastSettled, notRequestVars>>

\* uploadVideo: `if (token) xhr.setRequestHeader("Authorization", ...)`.
UploadRequest(f) ==
    /\ f \in Files
    /\ lastRequest' = Request("uploadVideo", "POST", "/api/videos/upload",
                              IF authToken # "" THEN "Bearer " \o authToken ELSE "",
                              Str(f.name), authToken, Undefined)
    /\ UNCHANGED <<authToken, storedUser, authCalls, lastSettled, reqTimer, notRequestVars>>

\* saveCaption(caption): method and URL by the caption's id, the caption as body.
saveCaption(caption) ==
    /\ caption \in Captions
    /\ lastRequest' = Request("saveCaption", CaptionMethod(caption), CaptionPath(caption),
                              getAuthHeaders(authToken), Stringify(caption), authToken,
                              caption)
    /\ UNCHANGED <<authToken, storedUser, authCalls, lastSettled, reqTimer, notRequestVars>>

NextRequests ==
    \/ login
    \/ \E o \in LoginOutcomes : LoginResponse(o)
    \/ signup
    \/ logout
    \/ \E o \in LogoutOutcomes : LogoutResponse(o)
    \/ \E r \in PlainRequests : PlainCall(r)
    \/ \E r \in JobRequests : JobCall(r)
    \/ \E a \in BOOLEAN : JobAnswered(a)
    \/ \E r \in TimerRequests : TimerRequest(r)
    \/ \E f \in Files : UploadRequest(f)
    \/ \E c \in Captions : saveCaption(c)

SpecRequests == Init /\ [][NextRequests]_vars


\* ------------------------------- the form's reaction to an import's result
\* handleYoutubeUpload after `await uploadYoutubeVideo(...)`:
\* `if (result.error) {...} else if (result.data) { setUploadSuccess(true);
\* onFileUpload(result.data); onVideoSelected(...) }`.
ReportsSuccess(result) ==
    ~Truthy(result.error) /\ Truthy(result.data)


\* ------------------------------------------------ the mock video list
\* Ids Math.random().toString(36).substring(2, 9) may yield; two uploads are
\* taken to draw different ones.
RandomIds == {RandomId, Id("p0f7m1z")}

\* The ids that occur in a list.
IdsOf(list) == {list[i] : i \in DOMAIN list}

\* findIndex: the first position of id in list (0: none).
FindIndex(list, id) ==
    IF id \in IdsOf(list)
    THEN CHOOSE i \in DOMAIN list : list[i] = id /\ \A k \in 1..(i - 1) : list[k] # id
    ELSE 0

\* splice(index, 1): the list without the element at index.
Splice(list, index) ==
    SubSeq(list, 1, index - 1) \o SubSeq(list, index + 1, Len(list))

notListVars == <<apiVars, mockVars, formVars, captionVars, requestVars, historyVars,
                 editorVars>>

\* mockUploadVideo reaches 100: the new record goes to the head of the list.
MockUploadDone(id) ==
    /\ id \in RandomIds \ IdsOf(mockList)
    /\ Len(mockList) < MaxListLen
    /\ mockList' = <<id>> \o mockList
    /\ lastDeleted' = NoId
    /\ UNCHANGED notListVars

\* mockUploadYoutubeVideo reaches 100 for a URL it accepted: the record
\* `yt-${videoId}` goes to the head of the list.
MockImportDone(u) ==
    /\ u \in Urls
    /\ getYoutubeVideoId(u) # ""
    /\ Len(mockList) < MaxListLen
    /\ mockList' = <<YtId(getYoutubeVideoId(u))>> \o mockList
    /\ lastDeleted' = NoId
    /\ UNCHANGED notListVars

\* mockDeleteVideo(id): findIndex, then splice when the id was found.
mockDeleteVideo(id) ==
    /\ LET index == FindIndex(mockList, id) IN
       mockList' = IF index # 0 THEN Splice(mockList, index) ELSE mockList
    /\ lastDeleted' = id
    /\ UNCHANGED notListVars

DeleteIds == SeedIds \cup RandomIds \cup {YtId("dQw4w9WgXcQ"), UnknownId}

NextMockList ==
    \/ \E id \in RandomIds : MockUploadDone(id)
    \/ \E u \in Urls : MockImportDone(u)
    \/ \E id \in DeleteIds : mockDeleteVideo(id)

SpecMockList == Init /\ [][NextMockList]_vars


\* ------------------------------------------------ the video history
\* The list without the entries equal to id: prev.filter((v) => v !== id).
Without(list, id) == SelectSeq(list, LAMBDA v : v # id)

\* Lists the server may answer getUserVideos with: the seed records, some of
\* them deleted (by this page or elsewhere).
ServerLists ==
    {SelectSeq(SeedVideos, LAMBDA v : v \in S) : S \in SUBSET SeedIds}

ListObj(ids) == [t |-> "list", ids |-> ids]

HistoryFetchOutcomes ==
    {Throw, Http(TRUE, TRUE, Null), Http(FALSE, TRUE, MsgObj("Unauthorized"))}
        \cup {Http(TRUE, TRUE, ListObj(l)) : l \in ServerLists}

HistoryDeleteOutcomes ==
    {Throw, Http(TRUE, TRUE, PlainObj), Http(FALSE, TRUE, MsgObj("Video not found"))}

notHistoryVars == <<apiVars, mockVars, formVars, captionVars, requestVars, listVars,
                    editorVars>>

\* The answer to getUserVideos arrives (the fetch of the mount effect or of
\* handleRefresh): `if (result.error) setError(...) else if (result.data)
\* setVideos(result.data)`, finally setIsLoading(false).
HistoryFetchAnswered(o) ==
    /\ fetchPending > 0
    /\ o \in HistoryFetchOutcomes
    /\ LET result == CatchAsError(CallResult(o)) IN
       /\ historyError' = IF Truthy(result.error) THEN result.error.s ELSE historyError
       /\ videos' = IF ~Truthy(result.error) /\ Truthy(result.data)
                    THEN result.data.ids
                    ELSE videos
    /\ isLoading' = FALSE
    /\ fetchPending' = fetchPending - 1
    /\ UNCHANGED <<selectedVideos, isDeleting, deleting, notHistoryVars>>

\* The Refresh button (disabled while isLoading).
handleRefresh ==
    /\ ~isLoading
    /\ isLoading' = TRUE
    /\ historyError' = ""
    /\ fetchPending' = fetchPending + 1
    /\ UNCHANGED <<videos, selectedVideos, isDeleting, deleting, notHistoryVars>>

\* The checkbox of a row (rows are shown when not loading; disabled while
\* isDeleting).
toggleSelectVideo(id) ==
    /\ ~isLoading
    /\ ~isDeleting
    /\ id \in IdsOf(videos)
    /\ selectedVideos' = IF id \in IdsOf(selectedVideos)
                         THEN Without(selectedVideos, id)
                         ELSE Append(selectedVideos, id)
    /\ UNCHANGED <<videos, isLoading, isDeleting, historyError, fetchPending, deleting,
                   notHistoryVars>>

\* The checkbox of the header (disabled while isLoading or without videos).
SelectAll(checked) ==
    /\ ~isLoading
    /\ videos # <<>>
    /\ selectedVideos' = IF checked THEN videos ELSE <<>>
    /\ UNCHANGED <<videos, isLoading, isDeleting, historyError, fetchPending, deleting,
                   notHistoryVars>>

\* Delete in the menu of a row: up to the await of deleteVideo(id).
handleDeleteVideo(id) ==
    /\ ~isLoading
    /\ ~isDeleting
    /\ id \in IdsOf(videos)
    /\ isDeleting' = TRUE
    /\ deleting' = [kind |-> "single", queue |-> <<id>>]
    /\ UNCHANGED <<videos, selectedVideos, isLoading, historyError, fetchPending,
                   notHistoryVars>>

\* Delete Selected (shown while something is selected, disabled while
\* isDeleting): up to the await of the first deleteVideo.
handleDeleteSelected ==
    /\ selectedVideos # <<>>
    /\ ~isDeleting
    /\ isDeleting' = TRUE
    /\ deleting' = [kind |-> "batch", queue |-> selectedVideos]
    /\ UNCHANGED <<videos, selectedVideos, isLoading, historyError, fetchPending,
                   notHistoryVars>>

\* The answer to the deleteVideo a handler waits for: the handler runs on to
\* its next await or to its end.
HistoryDeleteAnswered(o) ==
    /\ deleting.queue # <<>>
    /\ o \in HistoryDeleteOutcomes
    /\ LET result == CatchAsError(CallResult(o))
           id == Head(deleting.queue)
           rest == Tail(deleting.queue)
       IN IF Truthy(result.error)
          THEN /\ historyError' = result.error.s
               /\ selectedVideos' = IF deleting.kind = "batch" THEN <<>> ELSE selectedVideos
               /\ isDeleting' = FALSE
               /\ deleting' = NoDelete
               /\ UNCHANGED videos
          ELSE /\ videos' = Without(videos, id)
               /\ UNCHANGED historyError
               /\ IF deleting.kind = "single"
                  THEN /\ selectedVideos' = Without(selectedVideos, id)
                       /\ isDeleting' = FALSE
                       /\ deleting' = NoDelete
                  ELSE IF rest = <<>>
                  THEN /\ selectedVideos' = <<>>
                       /\ isDeleting' = FALSE
                       /\ deleting' = NoDelete
                  ELSE /\ deleting' = [deleting EXCEPT !.queue = rest]
                       /\ UNCHANGED <<selectedVideos, isDeleting>>
    /\ UNCHANGED <<isLoading, fetchPending, notHistoryVars>>

NextHistory ==
    \/ \E o \in HistoryFetchOutcomes : HistoryFetchAnswered(o)
    \/ handleRefresh
    \/ \E id \in SeedIds : toggleSelectVideo(id)
    \/ \E checked \in BOOLEAN : SelectAll(checked)
    \/ \E id \in SeedIds : handleDeleteVideo(id)
    \/ handleDeleteSelected
    \/ \E o \in HistoryDeleteOutcomes : HistoryDeleteAnswered(o)

SpecHistory == Init /\ [][NextHistory]_vars


\* ------------------------------------------------ the video editor
\* The remainder operator of JavaScript: the result has the sign of a.
JsRem(a, n) ==
    IF a >= 0 THEN a % n ELSE 0 - ((0 - a) % n)

\* Positions of the rotation slider tried (min 0, max 359, step 1).
RotationStops == {0, RotationSliderMax}

\* The subjects the simulated analysis reports.
SubjectsFound == <<Rect(20, 15, 30, 40), Rect(60, 25, 25, 30)>>

\* Positions of the crop sliders tried, and the range of each slider.
CropStops == {CropMin, 40}
CropRange(dimension) ==
    CASE dimension = "x" -> 0..(CropFull - crop.width)
      [] dimension = "y" -> 0..(CropFull - crop.height)
      [] dimension = "width" -> CropMin..(CropFull - crop.x)
      [] dimension = "height" -> CropMin..(CropFull - crop.y)

notEditorVars == <<apiVars, mockVars, formVars, captionVars, requestVars, listVars,
                   historyVars>>

\* Rotate Left / Rotate Right: setRotation((prev) => (prev + change) % 360).
handleRotate(direction) ==
    /\ LET change == IF direction = "clockwise" THEN QuarterTurn ELSE 0 - QuarterTurn IN
       rotation' = JsRem(rotation + change, FullTurn)
    /\ lastEditorStep' = "rotate"
    /\ UNCHANGED <<crop, smartCropEnabled, isProcessingSmartCrop, detectedSubjects,
                   selectedSubject, cropTimers, notEditorVars>>

\* The rotation slider: setRotation(values[0]).
RotationSlider(value) ==
    /\ value \in RotationStops
    /\ rotation' = value
    /\ lastEditorStep' = "slider"
    /\ UNCHANGED <<crop, smartCropEnabled, isProcessingSmartCrop, detectedSubjects,
                   selectedSubject, cropTimers, notEditorVars>>

\* A crop slider: the one dimension is replaced.
handleCropChange(dimension, value) ==
    /\ value \in CropRange(dimension)
    /\ crop' = [crop EXCEPT ![dimension] = value]
    /\ lastEditorStep' = "crop"
    /\ UNCHANGED <<rotation, smartCropEnabled, isProcessingSmartCrop, detectedSubjects,
                   selectedSubject, cropTimers, notEditorVars>>

\* The smart-crop switch.  Switched on without subjects it starts the
\* simulated analysis: a timeout whose closure holds the detectedSubjects of
\* the render in which the switch was used.
handleSmartCropToggle(enabled) ==
    /\ smartCropEnabled' = enabled
    /\ IF enabled /\ Len(detectedSubjects) = 0
       THEN /\ Len(cropTimers) < MaxCropTimers
            /\ isProcessingSmartCrop' = TRUE
            /\ cropTimers' = Append(cropTimers, detectedSubjects)
       ELSE UNCHANGED <<isProcessingSmartCrop, cropTimers>>
    /\ lastEditorStep' = "toggle"
    /\ UNCHANGED <<rotation, crop, detectedSubjects, selectedSubject, notEditorVars>>

\* The timeout of the analysis fires: subjects are set, the first one is
\* selected, and the crop is set from the closure's detectedSubjects when
\* that list is not empty.
SmartCropTimeout ==
    /\ cropTimers # <<>>
    /\ LET captured == Head(cropTimers) IN
       crop' = IF Len(captured) > 0 THEN captured[1] ELSE crop
    /\ detectedSubjects' = SubjectsFound
    /\ selectedSubject' = 0
    /\ isProcessingSmartCrop' = FALSE
    /\ cropTimers' = Tail(cropTimers)
    /\ lastEditorStep' = "analysis"
    /\ UNCHANGED <<rotation, smartCropEnabled, notEditorVars>>

\* A click on a detected subject (listed while smart crop is on).
selectSubject(index) ==
    /\ smartCropEnabled
    /\ index \in 0..(Len(detectedSubjects) - 1)
    /\ selectedSubject' = index
    /\ crop' = detectedSubjects[index + 1]
    /\ lastEditorStep' = "select"
    /\ UNCHANGED <<rotation, smartCropEnabled, isProcessingSmartCrop, detectedSubjects,
                   cropTimers, notEditorVars>>

\* The effect on videoSrc: rotation and crop go back to their initial values.
VideoSrcChanged ==
    /\ rotation' = 0
    /\ crop' = InitialCrop
    /\ lastEditorStep' = "videoSrc"
    /\ UNCHANGED <<smartCropEnabled, isProcessingSmartCrop, detectedSubjects,
                   selectedSubject, cropTimers, notEditorVars>>

NextEditor ==
    \/ \E d \in {"clockwise", "counterclockwise"} : handleRotate(d)
    \/ \E v \in RotationStops : RotationSlider(v)
    \/ \E d \in {"x", "y", "width", "height"}, v \in CropStops : handleCropChange(d, v)
    \/ \E e \in BOOLEAN : handleSmartCropToggle(e)
    \/ SmartCropTimeout
    \/ \E i \in 0..1 : selectSubject(i)
    \/ VideoSrcChanged

SpecEditor == Init /\ [][NextEditor]_vars


\* ------------------------------------------------ vocabulary of the claims
\* The server's answer reports completed=true / fails in transport or parsing.
IsCompletedAnswer(o) ==
    o.kind = "http" /\ o.ok /\ o.body.t = "progress" /\ o.body.completed

IsFailedAnswer(o) ==
    o.kind = "throw" \/ (o.json /\ o.body = Malformed)

\* A completed answer whose result the client takes from the answer itself.
IsInlineAnswer(o) ==
    IsCompletedAnswer(o) /\ op = "uploadYoutubeVideo" /\ o.body.videoData

CompletedSeen ==
    \E i \in DOMAIN pollLog : IsCompletedAnswer(pollLog[i])

\* A job of a caller with a callback was accepted by the server.
PollingJob ==
    op \in JobOps /\ cb /\ jobId # NoId

NonDecreasing(q) ==
    \A i \in 1..(Len(q) - 1) : q[i] <= q[i + 1]

\* A field of an envelope is present when it is set at all.
Present(v) == v # Undefined

ExactlyOne(env) ==
    Present(env.data) # Present(env.error)

\* ---------------------------------------------------------------- claims
\* C1: the values passed to onProgress during one job are non-decreasing,
\* whatever the server answers and in whatever order the answers arrive.
C1_ProgressNonDecreasing ==
    (op \in JobOps /\ cb) => NonDecreasing(observed)

\* C2: once an answer with completed=true has been processed, onProgress is
\* never invoked again for the job.
C2_CompletedTerminal ==
    [][(op \in JobOps /\ CompletedSeen) => observed' = observed]_vars

\* C3: the result request of a job is sent at most once.
C3_ResultFetchedAtMostOnce ==
    op \in JobOps => resultFetches <= 1

\* C4: with a callback, a job operation resolves only after completed=true was
\* observed, and with the job's final result, not with a placeholder.
C4_ResolvesWithFinalResult ==
    (PollingJob /\ pc = "returned")
        => /\ CompletedSeen
           /\ ret.data.t \in {"video", "clips"}
           /\ ret.data.from = "server"

C6_Stopped ==
    PollingJob
        => /\ CompletedSeen => timer = "cleared"
           /\ resultFetches =
                Cardinality({i \in DOMAIN pollLog :
                                IsCompletedAnswer(pollLog[i]) /\ ~IsInlineAnswer(pollLog[i])})

C6_CompletedStopsPolling ==
    /\ []C6_Stopped
    /\ [][timer = "cleared" => pollsSent' = pollsSent]_vars

C6_Witness ==
    /\ PollingJob /\ op = "uploadYoutubeVideo"
    /\ Len(pollLog) = 2
    /\ IsInlineAnswer(pollLog[2])
    /\ timer = "cleared" /\ resultFetches = 0 /\ pollsSent = 2

\* C7: the timer is cleared exactly when an answer with completed=true was
\* processed; until then it stays active; an operation that returned an error
\* never polled.
C7_TimerLifecycle ==
    op \in JobOps
        => /\ timer = "cleared" <=> CompletedSeen
           /\ timer = "active" <=> (PollingJob /\ ~CompletedSeen)
           /\ timer = "none" <=> ~PollingJob
           /\ Truthy(ret.error) => (timer = "none" /\ pollsSent = 0)

C7_Witness ==
    /\ PollingJob
    /\ Len(pollLog) = 3
    /\ ~IsCompletedAnswer(pollLog[1]) /\ ~IsCompletedAnswer(pollLog[2])
    /\ IsCompletedAnswer(pollLog[3])
    /\ timer = "cleared"

\* C8: a poll that fails leaves the timer as it was, so that polling goes on
\* as long as no answer reported completed=true.
C8_FailureStep ==
    (Len(pollLog') = Len(pollLog) + 1 /\ IsFailedAnswer(pollLog'[Len(pollLog')]))
        => timer' = timer

C8_PollFailureKeepsPolling ==
    /\ []((PollingJob /\ ~CompletedSeen /\ pollsSent < MaxTicks) => ENABLED Tick)
    /\ [][C8_FailureStep]_vars

C8_Witness ==
    /\ PollingJob
    /\ Len(pollLog) = 2 /\ pollsSent = 2
    /\ IsFailedAnswer(pollLog[1])
    /\ IsCompletedAnswer(pollLog[2])
    /\ timer = "cleared"

\* C9: an error envelope for the submit request is returned unchanged, and
\* neither a timer nor a poll, a result request or the mock follows.
C9_SubmitErrorReturned ==
    (op \in JobOps /\ Truthy(submitEnv.error))
        => /\ pc = "returned"
           /\ ret = submitEnv
           /\ timer = "none"
           /\ pollsSent = 0
           /\ resultFetches = 0
           /\ mockProgress = 0

C9_Witness ==
    /\ op = "uploadYoutubeVideo" /\ cb
    /\ submitEnv = Envelope(Undefined, Str("quota exceeded"))
    /\ ret = submitEnv
    /\ observed = <<YtStartProgress>>

C11_InvalidUrlNoProgress ==
    (op = "uploadYoutubeVideo" /\ ~validateYoutubeUrl(url) /\ getYoutubeVideoId(url) = "")
        => /\ observed = <<>>
           /\ pc = "returned" => Truthy(ret.error)

\* C12: a call of uploadVideo never ends with its promise pending for good,
\* and once it has returned after a success answer or after the mock took
\* over, it has returned a "completed" record and the last value passed to
\* onProgress is 100.
C12_UploadSettlesCompleted ==
    op = "uploadVideo" =>
        /\ pc # "hung"
        /\ (pc = "returned" /\ (answer = Throw \/ (answer.kind = "http" /\ answer.ok)))
              => /\ ret.data.t = "video"
                 /\ ret.data.status = "completed"
                 /\ cb => (observed # <<>> /\ observed[Len(observed)] = MockDone)

\* C13: during one uploadVideo call the values passed to onProgress never
\* decrease, also when the mock takes over after a transport failure, and 100
\* is among them only once the server's success answer has arrived or the
\* mock has finished its progress.
C13_CompletionConfirmed ==
    \/ answer.kind = "http" /\ answer.ok
    \/ mockProgress = MockDone

C13_UploadProgressMonotone ==
    (op = "uploadVideo" /\ cb) =>
        /\ NonDecreasing(observed)
        /\ (\E i \in DOMAIN observed : observed[i] = MockDone) => C13_CompletionConfirmed

\* C14: uploadVideo and uploadYoutubeVideo call the mock exactly when the
\* request failed in transport; a transport failure does not end in an error
\* envelope (for a URL the mock accepts), and an answer with a non-success
\* status ends in an error envelope without the mock being called.
C14_TransportFailed == answer = Throw

C14_MockExactlyOnTransportFailure ==
    (op \in {"uploadVideo", "uploadYoutubeVideo"} /\ answer # NoAnswer) =>
        /\ mockCalled <=> C14_TransportFailed
        /\ (C14_TransportFailed /\ (op = "uploadYoutubeVideo" => getYoutubeVideoId(url) # ""))
              => ~(pc = "returned" /\ Truthy(ret.error))
        /\ (answer.kind = "http" /\ ~answer.ok)
              => (pc = "returned" /\ Truthy(ret.error) /\ ~mockCalled)

\* C17: no public function rejects its promise: after a transport failure or
\* an answer with a non-success status the call is settled, or on its way
\* through the mock, and once returned it carries an error envelope unless
\* the mock supplied the result.
C17_RecoverableFailure ==
    answer = Throw \/ (answer.kind = "http" /\ ~answer.ok)

C18_Steps(n) == [i \in 1..n |-> MockStep * i]

C18_MockReported ==
    LET n == mockProgress \div MockStep
        k == Len(observed) - n
    IN IF cb
       THEN /\ k >= 0 /\ k <= xhrEvents
            /\ SubSeq(observed, k + 1, Len(observed)) = C18_Steps(n)
       ELSE observed = <<>>

C18_UploadMock ==
    (op = "uploadVideo" /\ mockCalled) =>
        /\ C18_MockReported
        /\ mockProgress <= MockDone
        /\ pc = "mock" => (mockProgress < MockDone /\ mockVideos = SeedVideos)
        /\ pc \in {"mockResolve", "returned"} =>
              /\ mockProgress = MockDone
              /\ mockVideos = <<RandomId>> \o SeedVideos
        /\ pc = "returned" =>
              /\ ret.data.id = RandomId
              /\ ret.data.status = "completed"
              /\ ret.data.name = file.name
              /\ file.size = 10485760 => ret.data.size = "10.00 MB"
              /\ file.size = 1234567 => ret.data.size = "1.18 MB"
              /\ ret.error = Undefined

C18_Witness ==
    /\ op = "uploadVideo" /\ cb /\ mockCalled
    /\ pc = "returned"
    /\ file.name = "clip.mp4"
    /\ ret.data.name = "clip.mp4"
    /\ ret.data.size = "10.00 MB"
    /\ Len(observed) = 21
    /\ observed[1] = 67
    /\ observed[21] = MockDone

\* C19: when the mock has taken over a call of uploadYoutubeVideo whose URL
\* has the accepted shape (watch?v= or youtu.be/ followed by an 11-character
\* id), the call returns, after the mock's progress 5, 10, ..., 100, a record
\* whose id is "yt-" followed by that id and whose thumbnail names the same
\* id; https://youtu.be/dQw4w9WgXcQ gives yt-dQw4w9WgXcQ.
C19_AcceptedUrlYieldsYtRecord ==
    (op = "uploadYoutubeVideo" /\ mockCalled /\ validateYoutubeUrl(url) /\ pc = "returned") =>
        /\ ret.error = Undefined
        /\ ret.data.t = "video"
        /\ ret.data.id = YtId(ValidatedId(url))
        /\ ret.data.thumbnail = "https://img.youtube.com/vi/" \o ValidatedId(url) \o "/mqdefault.jpg"
        /\ url = "https://youtu.be/dQw4w9WgXcQ" => ret.data.id = <<"yt-", "dQw4w9WgXcQ">>
        /\ cb => SubSeq(observed, Len(observed) - 19, Len(observed)) = C18_Steps(20)

\* C15: the status of a record is "completed" only while no call of
\* mockProcessVideo for that record is still running.
C15_JobsInFlight(id) ==
    {j \in DOMAIN jobs : jobs[j].state = "running" /\ jobs[j].video = id}

C15_CompletedOnlyWhenIdle ==
    \A id \in SeedIds : videoStatus[id] = "completed" => C15_JobsInFlight(id) = {}

\* C16: the upload form passes only valid files to uploadVideo and only URLs
\* of the accepted pattern to uploadYoutubeVideo, and after a drop or a file
\* choice every invalid file of the selection has left an error message,
\* which names the file when the file is too large.
C16_Contains(s, part) ==
    \E i \in 1..(Len(s) - Len(part) + 1) : SubSeq(s, i, i + Len(part) - 1) = part

C16_TooLarge(f) ==
    Extension(f.name) \in supportedFormats /\ f.size > MaxFileSizeMB * 1024 * 1024

C16_ValidationBlocksNetwork ==
    /\ \A f \in uploadArgs : IsValidFile(f)
    /\ \A u \in ytArgs : validateYoutubeUrl(u)
    /\ lastHandler \in {"handleDrop", "handleFileInputChange"} =>
          \A i \in DOMAIN selection :
              IsInvalidFile(selection[i]) =>
                  /\ formError # ""
                  /\ C16_TooLarge(selection[i]) => C16_Contains(formError, selection[i].name)

\* C20: in the caption editor the end time is greater than the start time in
\* every state, whatever the sliders were moved to.
C20_EndAfterStart ==
    endTime > startTime

\* C21: saveCaption sends POST /api/captions exactly when the caption has no
\* id (none or an empty one) and PUT /api/captions/{id} exactly when it has
\* one, and its body holds the caption's fields with their values.
C21_HasId(caption) ==
    caption.id # Undefined /\ caption.id # Str("")

C21_CaptionUpsert ==
    lastRequest.fn = "saveCaption" =>
        LET caption == lastRequest.arg
            body == lastRequest.body
        IN /\ ~C21_HasId(caption) <=>
                  (lastRequest.method = "POST" /\ lastRequest.path = "/api/captions")
           /\ C21_HasId(caption) <=>
                  (/\ lastRequest.method = "PUT"
                   /\ C21_HasId(caption)
                   /\ lastRequest.path = "/api/captions/" \o caption.id.s)
           /\ DOMAIN body \subseteq DOMAIN caption
           /\ \A f \in DOMAIN caption :
                  caption[f] # Undefined => (f \in DOMAIN body /\ body[f] = caption[f])

C21_Witness ==
    /\ lastRequest.fn = "saveCaption"
    /\ lastRequest.arg = Caption(Str("c7"))
    /\ lastRequest.method = "PUT"
    /\ lastRequest.path = "/api/captions/c7"

\* C22: every request other than login and signup that is sent while a token
\* is stored carries "Bearer " followed by the token stored at that moment.
C22_BearerOnEveryRequest ==
    (lastRequest.fn \notin {"none", "login", "signup"} /\ lastRequest.stored # "")
        => lastRequest.authorization = "Bearer " \o lastRequest.stored

C22_Witness ==
    /\ lastRequest.fn = "poll"
    /\ lastSettled = "login"
    /\ authToken = "tokB"
    /\ lastRequest.authorization = "Bearer tokB"

\* C23: once logout has settled (and no login has settled after it), token
\* and user are absent from localStorage.
C23_LogoutClearsStorage ==
    lastSettled = "logout" => (authToken = "" /\ storedUser = "")

\* C25: when the import handler reports success for the result of
\* uploadYoutubeVideo (called with its progress callback), that result is a
\* completed record and the job's polling timer is no longer running.
C25_SuccessOnlyWhenCompleted ==
    (op = "uploadYoutubeVideo" /\ cb /\ pc = "returned" /\ ReportsSuccess(ret))
        => /\ ret.data.t = "video"
           /\ ret.data.status = "completed"
           /\ timer # "active"

\* C26: the records of the mock list have pairwise distinct ids, and right
\* after mockDeleteVideo(id) no record of the list has that id.
C26_DistinctIdsAndDeleted ==
    /\ \A i, k \in DOMAIN mockList : mockList[i] = mockList[k] => i = k
    /\ lastDeleted # NoId => lastDeleted \notin IdsOf(mockList)

\* C27: in every state of VideoHistory the selected ids are among the ids of
\* the displayed videos.
C27_SelectionDisplayed ==
    IdsOf(selectedVideos) \subseteq IdsOf(videos)

\* C28: when api.saveCaption has returned a {data} envelope to handleSave,
\* saveSuccess is true, onSave was called and no error is shown; and isSaving
\* is false whenever no handleSave is waiting.
C28_AcceptedSaveReported ==
    /\ (~savePending /\ Truthy(saveAnswer.data) /\ ~Truthy(saveAnswer.error))
          => (saveSuccess /\ onSaveCalled /\ captionError = "")
    /\ ~savePending => ~isSaving

\* C29: right after the timeout of an analysis that was started with no
\* subjects detected, isProcessingSmartCrop is false, the first subject is
\* selected and the crop rectangle is that subject's rectangle.
C29_AnalysisAppliesFirstSubject ==
    lastEditorStep = "analysis" =>
        /\ ~isProcessingSmartCrop
        /\ selectedSubject = 0
        /\ crop = detectedSubjects[1]

\* C30: the rotation of the video editor is within 0..359.
C30_RotationInSliderRange ==
    rotation \in 0..RotationSliderMax

\* C24: the upload form rendered by Dashboard waits for at most one call of
\* uploadVideo or uploadYoutubeVideo, and while it waits for one its
\* isUploading is true.
C24_OneCallInFlight ==
    composedBy = "Dashboard" =>
        /\ pending.upload + pending.youtube <= 1
        /\ pending.upload + pending.youtube > 0 => isUploading

====
